---------------------------- MODULE Spec2Model ----------------------------
(***************************************************************************)
(* Model of treelist-gen6.6.py: one run of main() (fetch the listing with  *)
(* rclone, then either the depth aggregation or the raw-list save followed *)
(* by tree building and HTML rendering), with the pure functions           *)
(* group_by_depth_and_sum_size, convert_size, build_tree_structure and     *)
(* generate_tree_html computed the way the code computes them.             *)
(*                                                                         *)
(* Strings are sequences of one-character strings, so that split, rstrip,  *)
(* join, lower and the regular expression ^(\d+) are real computations.    *)
(***************************************************************************)
EXTENDS Integers, Sequences, FiniteSets, TLC

VARIABLES
    pc,            \* position in main(): start, fetched, grouped, converted,
                   \* saved, built, rendered, done, aborted
    args,          \* argparse result: generate_tree, depth, unit
    rclone,        \* the subprocess: number of invocations and return code
    files,         \* main's local `files` (the parsed listing)
    grouped,       \* main's local `grouped` (insertion-ordered dict)
    converted,     \* main's local `converted`
    stdout,        \* the report lines printed by main
    outputFile,    \* contents of args.output on disk
    tree,          \* generate_html_from_json's local `tree`
    tree_html,     \* generate_html_from_json's local `tree_html`
    treelistFile   \* contents of treelist.html on disk

vars == <<pc, args, rclone, files, grouped, converted, stdout, outputFile,
          tree, tree_html, treelistFile>>

---------------------------------------------------------------------------
(* Bounds of the model *)

MaxEntries == 3     \* longest listing explored
MaxDepth == 2       \* largest --depth explored

---------------------------------------------------------------------------
(* Characters and Python's str operations *)

Digits == <<"0", "1", "2", "3", "4", "5", "6", "7", "8", "9">>
Uppers == <<"A", "B", "C", "D", "E", "F", "G", "H", "I", "J", "K", "L", "M",
            "N", "O", "P", "Q", "R", "S", "T", "U", "V", "W", "X", "Y", "Z">>
Lowers == <<"a", "b", "c", "d", "e", "f", "g", "h", "i", "j", "k", "l", "m",
            "n", "o", "p", "q", "r", "s", "t", "u", "v", "w", "x", "y", "z">>

IndexIn(seq, c) == CHOOSE i \in DOMAIN seq : seq[i] = c
IsIn(seq, c) == \E i \in DOMAIN seq : seq[i] = c

\* ord(c) for the ASCII characters the model uses
Ord(c) ==
    IF IsIn(Digits, c) THEN 47 + IndexIn(Digits, c)
    ELSE IF IsIn(Uppers, c) THEN 64 + IndexIn(Uppers, c)
    ELSE IF IsIn(Lowers, c) THEN 96 + IndexIn(Lowers, c)
    ELSE IF c = "." THEN 46
    ELSE IF c = "/" THEN 47
    ELSE 95   \* "_"

\* str.lower(), character by character
LowerChar(c) == IF IsIn(Uppers, c) THEN Lowers[IndexIn(Uppers, c)] ELSE c
Lower(s) == [i \in DOMAIN s |-> LowerChar(s[i])]

\* Python's < on str: lexicographic by code point
RECURSIVE StrLess(_, _)
StrLess(s, t) ==
    IF t = <<>> THEN FALSE
    ELSE IF s = <<>> THEN TRUE
    ELSE IF Ord(Head(s)) < Ord(Head(t)) THEN TRUE
    ELSE IF Ord(Head(s)) > Ord(Head(t)) THEN FALSE
    ELSE StrLess(Tail(s), Tail(t))

\* s.split('/'): the pieces between slashes, empty pieces kept
RECURSIVE SplitFrom(_, _, _)
SplitFrom(s, i, piece) ==
    IF i > Len(s) THEN <<piece>>
    ELSE IF s[i] = "/" THEN <<piece>> \o SplitFrom(s, i + 1, <<>>)
    ELSE SplitFrom(s, i + 1, Append(piece, s[i]))
Split(s) == SplitFrom(s, 1, <<>>)

\* '/'.join(parts)
RECURSIVE Join(_)
Join(parts) ==
    IF parts = <<>> THEN <<>>
    ELSE IF Len(parts) = 1 THEN parts[1]
    ELSE parts[1] \o <<"/">> \o Join(Tail(parts))

\* s.rstrip('/')
RECURSIVE RStrip(_)
RStrip(s) ==
    IF s # <<>> /\ s[Len(s)] = "/" THEN RStrip(SubSeq(s, 1, Len(s) - 1)) ELSE s

\* seq[:n] for n >= 0
Slice(seq, n) == SubSeq(seq, 1, IF n < Len(seq) THEN n ELSE Len(seq))

---------------------------------------------------------------------------
(* group_by_depth_and_sum_size *)

\* the buggy variant: the depth == 0 case is not special-cased
DirPathNoZeroCase(file, depth) == Join(Slice(Split(file.Path), depth))

\* line 23-24: the group key of one file
DirPath(file, depth) ==
    IF depth > 0 THEN Join(Slice(Split(file.Path), depth)) ELSE file.Path

HasKey(d, k) == \E i \in DOMAIN d : d[i].key = k

\* the buggy variant: the size is stored instead of accumulated
GroupStepOverwrite(g, file, depth) ==
    IF file.IsDir THEN g
    ELSE LET dir_path == DirPath(file, depth)
             g1 == IF HasKey(g, dir_path) THEN g
                   ELSE Append(g, [key |-> dir_path, val |-> 0])
         IN [i \in DOMAIN g1 |->
                IF g1[i].key = dir_path
                THEN [g1[i] EXCEPT !.val = file.Size] ELSE g1[i]]

\* lines 20-28: the loop body, on the insertion-ordered dict `grouped`
GroupStep(g, file, depth) ==
    IF file.IsDir THEN g
    ELSE LET dir_path == DirPath(file, depth)
             g1 == IF HasKey(g, dir_path) THEN g
                   ELSE Append(g, [key |-> dir_path, val |-> 0])
         IN [i \in DOMAIN g1 |->
                IF g1[i].key = dir_path
                THEN [g1[i] EXCEPT !.val = @ + file.Size] ELSE g1[i]]

RECURSIVE GroupLoop(_, _, _, _)
GroupLoop(g, fs, i, depth) ==
    IF i > Len(fs) THEN g
    ELSE GroupLoop(GroupStep(g, fs[i], depth), fs, i + 1, depth)

group_by_depth_and_sum_size(fs, depth) == GroupLoop(<<>>, fs, 1, depth)

---------------------------------------------------------------------------
(* convert_size *)

Str_bytes == <<"b", "y", "t", "e", "s">>
Str_kb == <<"k", "b">>
Str_mb == <<"m", "b">>
Str_gb == <<"g", "b">>

\* the buggy variant: decimal kilobytes
UnitDivisorDecimal(unit) ==
    LET u == Lower(unit)
    IN IF u = Str_kb THEN 1000
       ELSE IF u = Str_mb THEN 1000 * 1000
       ELSE IF u = Str_gb THEN 1000 * 1000 * 1000
       ELSE 1

\* lines 33-38: units.get(unit.lower(), 1)
UnitDivisor(unit) ==
    LET u == Lower(unit)
    IN IF u = Str_kb THEN 1024
       ELSE IF u = Str_mb THEN 1024 * 1024
       ELSE IF u = Str_gb THEN 1024 * 1024 * 1024
       ELSE 1

\* size_bytes / divisor is a float; the divisors are powers of two, so the
\* quotient is exact and is kept as the fraction num/den
convert_size(size_bytes, unit) == [num |-> size_bytes, den |-> UnitDivisor(unit)]

\* f"{size:.2f}": the value in hundredths, correctly rounded, ties to even
Format2f(r) ==
    LET n == r.num * 100
        q == n \div r.den
        m == n % r.den
    IN IF 2 * m > r.den \/ (2 * m = r.den /\ q % 2 = 1) THEN q + 1 ELSE q

\* sorted(items, key=lambda x: x[0]): stable insertion by key
RECURSIVE InsertByKey(_, _)
InsertByKey(sorted, x) ==
    IF sorted = <<>> THEN <<x>>
    ELSE IF StrLess(x.key, sorted[Len(sorted)].key)
         THEN Append(InsertByKey(SubSeq(sorted, 1, Len(sorted) - 1), x),
                     sorted[Len(sorted)])
         ELSE Append(sorted, x)

RECURSIVE SortByKey(_)
SortByKey(d) ==
    IF d = <<>> THEN <<>>
    ELSE InsertByKey(SortByKey(SubSeq(d, 1, Len(d) - 1)), d[Len(d)])

---------------------------------------------------------------------------
(* build_tree_structure                                                    *)
(*                                                                         *)
(* The nested dict is kept as the sequence of its nodes in creation order  *)
(* (Python dicts iterate in insertion order), each node with its path from *)
(* the root (the sequence of segment names), its '_size' and its '_isdir'. *)
(* The children of a node are the nodes one segment below it.              *)

Str_size == <<"_", "s", "i", "z", "e">>
Str_isdir == <<"_", "i", "s", "d", "i", "r">>

HasNode(t, p) == \E i \in DOMAIN t : t[i].path = p
NodeAt(t, p) == t[CHOOSE i \in DOMAIN t : t[i].path = p]

\* lines 74-79: current[part] is created when absent
EnsureNode(t, p) ==
    IF HasNode(t, p) THEN t
    ELSE Append(t, [path |-> p, size |-> 0, isdir |-> FALSE])

\* the buggy variant: the flag follows the last entry seen for the path
LeafUpdateLastWins(t, p, is_dir, size) ==
    [i \in DOMAIN t |->
        IF t[i].path # p THEN t[i]
        ELSE IF is_dir THEN [t[i] EXCEPT !.isdir = TRUE]
        ELSE [t[i] EXCEPT !.size = @ + size, !.isdir = FALSE]]

\* lines 82-86: the entry's own node
LeafUpdate(t, p, is_dir, size) ==
    [i \in DOMAIN t |->
        IF t[i].path # p THEN t[i]
        ELSE IF is_dir THEN [t[i] EXCEPT !.isdir = TRUE]
        ELSE [t[i] EXCEPT !.size = @ + size]]

\* the buggy variant: an ancestor's size is not accumulated
InnerUpdateNoSize(t, p, size) == t

\* lines 87-96: a node above the entry's own node. The isinstance test of
\* line 88 is never true: every value stored in the dict is a dict
InnerUpdate(t, p, size) ==
    [i \in DOMAIN t |->
        IF t[i].path = p THEN [t[i] EXCEPT !.size = @ + size] ELSE t[i]]

\* lines 70-97: the walk along the parts of one entry; `current` is the
\* path of the dict the walk stands in
RECURSIVE WalkParts(_, _, _, _, _, _)
WalkParts(t, parts, i, current, is_dir, size) ==
    IF i > Len(parts) THEN t
    ELSE IF parts[i] = <<>> THEN WalkParts(t, parts, i + 1, current, is_dir, size)
    ELSE LET p == Append(current, parts[i])
             t1 == EnsureNode(t, p)
         IN IF i = Len(parts)
            THEN LeafUpdate(t1, p, is_dir, size)
            ELSE WalkParts(InnerUpdate(t1, p, size), parts, i + 1, p, is_dir, size)

\* lines 64-97: one entry
AddEntry(t, entry) ==
    LET path == RStrip(entry.Path)
        parts == IF path # <<>> THEN Split(path) ELSE <<>>
        size == IF ~entry.IsDir THEN entry.Size ELSE 0
    IN WalkParts(t, parts, 1, <<>>, entry.IsDir, size)

RECURSIVE BuildLoop(_, _, _)
BuildLoop(t, entries, i) ==
    IF i > Len(entries) THEN t
    ELSE BuildLoop(AddEntry(t, entries[i]), entries, i + 1)

\* lines 99-108: clean_node. cleaned[k] is the cleaned children of k with
\* the keys '_size' and '_isdir' then assigned, so a child of a named node
\* that is itself called _size or _isdir is overwritten, its subtree with it
Overwritten(p) ==
    \E k \in 2..Len(p) : p[k] = Str_size \/ p[k] = Str_isdir

RECURSIVE clean_node(_)
clean_node(t) ==
    IF t = <<>> THEN <<>>
    ELSE IF Overwritten(Head(t).path) THEN clean_node(Tail(t))
    ELSE <<Head(t)>> \o clean_node(Tail(t))

build_tree_structure(entries) == clean_node(BuildLoop(<<>>, entries, 1))

---------------------------------------------------------------------------
(* extract_number and generate_tree_html *)

IsDigit(c) == IsIn(Digits, c)

\* the length of the match of ^(\d+): the leading digits
RECURSIVE LeadingDigits(_)
LeadingDigits(name) ==
    IF name # <<>> /\ IsDigit(Head(name)) THEN 1 + LeadingDigits(Tail(name)) ELSE 0

\* int() of a string of digits
RECURSIVE IntOf(_)
IntOf(ds) ==
    IF ds = <<>> THEN 0
    ELSE 10 * IntOf(SubSeq(ds, 1, Len(ds) - 1)) + (Ord(ds[Len(ds)]) - 48)

\* lines 112-115: an int, or float('inf')
extract_number(name) ==
    LET k == LeadingDigits(name)
    IN IF k > 0 THEN [inf |-> FALSE, n |-> IntOf(SubSeq(name, 1, k))]
       ELSE [inf |-> TRUE, n |-> 0]

\* Python's < between ints and float('inf')
NumLess(a, b) ==
    IF a.inf THEN FALSE ELSE IF b.inf THEN TRUE ELSE a.n < b.n

\* the buggy variant: every level is sorted by lower-cased name
DirKeyLessAlpha(current_depth, x, y) == StrLess(Lower(x), Lower(y))

\* lines 136-139: the order of the sort keys of two directory names
DirKeyLess(current_depth, x, y) ==
    IF current_depth = 1
    THEN NumLess(extract_number(x), extract_number(y))
    ELSE StrLess(Lower(x), Lower(y))

\* line 142: the order of the sort keys of two file names
FileKeyLess(x, y) == StrLess(Lower(x), Lower(y))

Name(node) == node.path[Len(node.path)]

\* list.sort is stable: an item goes after every item whose key is not greater
RECURSIVE InsertDir(_, _, _)
InsertDir(sorted, x, d) ==
    IF sorted = <<>> THEN <<x>>
    ELSE IF DirKeyLess(d, Name(x), Name(sorted[Len(sorted)]))
         THEN Append(InsertDir(SubSeq(sorted, 1, Len(sorted) - 1), x, d),
                     sorted[Len(sorted)])
         ELSE Append(sorted, x)

RECURSIVE SortDirs(_, _)
SortDirs(dirs, d) ==
    IF dirs = <<>> THEN <<>>
    ELSE InsertDir(SortDirs(SubSeq(dirs, 1, Len(dirs) - 1), d), dirs[Len(dirs)], d)

RECURSIVE InsertFile(_, _)
InsertFile(sorted, x) ==
    IF sorted = <<>> THEN <<x>>
    ELSE IF FileKeyLess(Name(x), Name(sorted[Len(sorted)]))
         THEN Append(InsertFile(SubSeq(sorted, 1, Len(sorted) - 1), x),
                     sorted[Len(sorted)])
         ELSE Append(sorted, x)

\* the buggy variant: the files are left in insertion order
SortFilesNone(fs) == fs

RECURSIVE SortFiles(_)
SortFiles(fs) ==
    IF fs = <<>> THEN <<>>
    ELSE InsertFile(SortFiles(SubSeq(fs, 1, Len(fs) - 1)), fs[Len(fs)])

\* node.items() of the dict at path p, in insertion order
IsChild(p, q) == Len(q) = Len(p) + 1 /\ SubSeq(q, 1, Len(p)) = p

RECURSIVE Items(_, _)
Items(t, p) ==
    IF t = <<>> THEN <<>>
    ELSE IF IsChild(p, Head(t).path) THEN <<Head(t)>> \o Items(Tail(t), p)
    ELSE Items(Tail(t), p)

\* lines 123-133: the items kept, split by '_isdir'
RECURSIVE Keep(_, _)
Keep(items, wantDir) ==
    IF items = <<>> THEN <<>>
    ELSE LET x == Head(items)
         IN IF Name(x) = Str_size \/ Name(x) = Str_isdir THEN Keep(Tail(items), wantDir)
            ELSE IF x.isdir = wantDir THEN <<x>> \o Keep(Tail(items), wantDir)
            ELSE Keep(Tail(items), wantDir)

\* the markup is a sequence of tokens: the tags, and the characters of names
FileItem(x) == <<"<li>", "<span class=\"file\">">> \o Name(x) \o <<"</span>", "</li>">>

RECURSIVE FileItems(_)
FileItems(fs) ==
    IF fs = <<>> THEN <<>> ELSE FileItem(Head(fs)) \o FileItems(Tail(fs))

\* lines 117-153: generate_tree_html of the dict at path p
RECURSIVE generate_tree_html(_, _, _)
RECURSIVE DirItems(_, _, _)
DirItems(t, dirs, current_depth) ==
    IF dirs = <<>> THEN <<>>
    ELSE <<"<li>", "<span class=\"folder\">">> \o Name(Head(dirs)) \o <<"</span>">>
         \o generate_tree_html(t, Head(dirs).path, current_depth + 1)
         \o <<"</li>">>
         \o DirItems(t, Tail(dirs), current_depth)

generate_tree_html(t, p, current_depth) ==
    LET items == Items(t, p)
        dirs == SortDirs(Keep(items, TRUE), current_depth)
        fs == SortFiles(Keep(items, FALSE))
    IN <<"<ul>">> \o DirItems(t, dirs, current_depth) \o FileItems(fs) \o <<"</ul>">>

---------------------------------------------------------------------------
(* The listings and arguments explored *)

Entry(path, is_dir, size) == [Path |-> path, IsDir |-> is_dir, Size |-> size]

ListsOver(pool) == UNION {[1..k -> pool] : k \in 0..MaxEntries}

P_a_b_f1 == <<"a", "/", "b", "/", "f", "1", ".", "t", "x", "t">>
P_a_c_f2 == <<"a", "/", "c", "/", "f", "2", ".", "t", "x", "t">>
P_a_b == <<"a", "/", "b">>
P_a == <<"a">>

E_f1 == Entry(P_a_b_f1, FALSE, 100)
E_b == Entry(P_a_b, TRUE, 0)
E_f2 == Entry(P_a_c_f2, FALSE, 50)

\* the units argparse accepts (line 177), and other strings convert_size
\* can be called with
Choices == {Str_bytes, Str_kb, Str_mb, Str_gb}
UnitPool == Choices \cup {<<"f", "o", "o">>, <<"K", "B">>}

\* listings of a run of main
MainPool == {E_f1, E_b, E_f2, Entry(<<"2", "y">>, TRUE, 0)}

\* listings for the aggregation: files that share a group, a path with an
\* empty segment, a file above the grouping depth, a directory with a size
AggPool ==
    {E_f1, E_b, E_f2,
     Entry(<<"a", "/", "g">>, FALSE, 1024),
     Entry(<<"a", "/", "/", "h">>, FALSE, 1024),
     Entry(<<"f">>, FALSE, 2048),
     Entry(<<"x">>, TRUE, 7)}

\* listings for the tree builder: a path that is a file and a directory, a
\* file that is a prefix of another entry, leading, doubled and trailing
\* slashes, a segment called _size
TreePool ==
    {E_f1, E_b, E_f2,
     Entry(P_a_b, FALSE, 50),
     Entry(P_a, TRUE, 0),
     Entry(<<"/", "a", "/", "/", "b", "/">>, FALSE, 100),
     Entry(<<"a", "/">> \o Str_size, FALSE, 50)}

\* listings for the renderer: numbered and unnumbered top-level directories,
\* equal numbers, names that differ only in case, both kinds at both depths
RenderPool ==
    {Entry(<<"1", "0", "x">>, TRUE, 0),
     Entry(<<"2", "y">>, TRUE, 0),
     Entry(<<"a", "b", "c">>, TRUE, 0),
     Entry(<<"2", "z">>, TRUE, 0),
     Entry(<<"b">>, FALSE, 50),
     Entry(<<"B">>, FALSE, 100),
     Entry(<<"2", "y", "/", "B">>, TRUE, 0),
     Entry(<<"2", "y", "/", "a">>, TRUE, 0),
     Entry(<<"2", "y", "/", "C">>, FALSE, 50)}

NoFile == [kind |-> "absent", unit |-> <<>>, files |-> <<>>, directories |-> <<>>]
NoHtml == [written |-> FALSE, html |-> <<>>]

---------------------------------------------------------------------------
(* main *)

\* the buggy variant: the return code is not looked at
RunRcloneUnchecked ==
    /\ pc = "start"
    /\ \E rc \in {0, 1}, listing \in ListsOver(MainPool) :
          /\ rclone' = [calls |-> rclone.calls + 1, returncode |-> rc]
          /\ files' = listing
          /\ pc' = "fetched"
    /\ UNCHANGED <<args, grouped, converted, stdout, outputFile, tree,
                   tree_html, treelistFile>>

\* lines 181-183 and run_rclone_lsjson (8-14): the one subprocess call; a
\* non-zero return code raises, which ends main. On return code 0 the
\* output is taken to be the JSON listing rclone lsjson prints
RunRclone ==
    /\ pc = "start"
    /\ \E rc \in {0, 1} :
          /\ rclone' = [calls |-> rclone.calls + 1, returncode |-> rc]
          /\ IF rc # 0
             THEN pc' = "aborted" /\ files' = files
             ELSE pc' = "fetched" /\ files' \in ListsOver(MainPool)
    /\ UNCHANGED <<args, grouped, converted, stdout, outputFile, tree,
                   tree_html, treelistFile>>

\* lines 185-187 and save_files_data (50-58)
SaveFilesData ==
    /\ pc = "fetched"
    /\ args.generate_tree
    /\ outputFile' = [kind |-> "files", unit |-> args.unit, files |-> files,
                      directories |-> <<>>]
    /\ pc' = "saved"
    /\ UNCHANGED <<args, rclone, files, grouped, converted, stdout, tree,
                   tree_html, treelistFile>>

\* lines 188-190
GroupBySize ==
    /\ pc = "fetched"
    /\ ~args.generate_tree
    /\ grouped' = group_by_depth_and_sum_size(files, args.depth)
    /\ pc' = "grouped"
    /\ UNCHANGED <<args, rclone, files, converted, stdout, outputFile, tree,
                   tree_html, treelistFile>>

\* line 191: convert_size on each group's sum
ConvertSizes ==
    /\ pc = "grouped"
    /\ converted' = [i \in DOMAIN grouped |->
                        [key |-> grouped[i].key,
                         val |-> convert_size(grouped[i].val, args.unit)]]
    /\ pc' = "converted"
    /\ UNCHANGED <<args, rclone, files, grouped, stdout, outputFile, tree,
                   tree_html, treelistFile>>

\* lines 192-198 and save_grouped_data (40-48); args.generate_tree is false
\* here, so line 200 ends main
SaveGroupedData ==
    /\ pc = "converted"
    /\ LET sorted_data == SortByKey(converted)
       IN /\ stdout' = [i \in DOMAIN sorted_data |->
                           [path |-> sorted_data[i].key,
                            size |-> Format2f(sorted_data[i].val)]]
          /\ outputFile' = [kind |-> "directories", unit |-> args.unit,
                            files |-> <<>>, directories |-> sorted_data]
    /\ pc' = "done"
    /\ UNCHANGED <<args, rclone, files, grouped, converted, tree, tree_html,
                   treelistFile>>

\* lines 200-202 and generate_html_from_json (157-166): template.html may be
\* missing, and the file read back is the one save_files_data wrote
BuildTree ==
    /\ pc = "saved"
    /\ \E template_found \in BOOLEAN :
          IF ~template_found \/ outputFile.kind # "files"
          THEN pc' = "aborted" /\ tree' = tree
          ELSE pc' = "built" /\ tree' = build_tree_structure(outputFile.files)
    /\ UNCHANGED <<args, rclone, files, grouped, converted, stdout, outputFile,
                   tree_html, treelistFile>>

\* line 167
RenderTree ==
    /\ pc = "built"
    /\ tree_html' = generate_tree_html(tree, <<>>, 1)
    /\ pc' = "rendered"
    /\ UNCHANGED <<args, rclone, files, grouped, converted, stdout, outputFile,
                   tree, treelistFile>>

\* lines 169-170 and 203
WriteTreelist ==
    /\ pc = "rendered"
    /\ treelistFile' = [written |-> TRUE, html |-> tree_html]
    /\ pc' = "done"
    /\ UNCHANGED <<args, rclone, files, grouped, converted, stdout, outputFile,
                   tree, tree_html>>

\* lines 173-179: the parsed arguments, nothing run yet
Init ==
    /\ pc = "start"
    /\ args \in [generate_tree : BOOLEAN, depth : 0..MaxDepth, unit : Choices]
    /\ rclone = [calls |-> 0, returncode |-> 0]
    /\ files = <<>>
    /\ grouped = <<>>
    /\ converted = <<>>
    /\ stdout = <<>>
    /\ outputFile = NoFile
    /\ tree = <<>>
    /\ tree_html = <<>>
    /\ treelistFile = NoHtml

Next ==
    \/ RunRclone
    \/ SaveFilesData
    \/ GroupBySize
    \/ ConvertSizes
    \/ SaveGroupedData
    \/ BuildTree
    \/ RenderTree
    \/ WriteTreelist

Spec == Init /\ [][Next]_vars

\* The aggregation on its own: lines 190-198 entered with any listing of
\* AggPool, any depth and any unit string of UnitPool
InitAgg ==
    /\ pc = "fetched"
    /\ args \in [generate_tree : {FALSE}, depth : 0..MaxDepth, unit : UnitPool]
    /\ rclone = [calls |-> 1, returncode |-> 0]
    /\ files \in ListsOver(AggPool)
    /\ grouped = <<>>
    /\ converted = <<>>
    /\ stdout = <<>>
    /\ outputFile = NoFile
    /\ tree = <<>>
    /\ tree_html = <<>>
    /\ treelistFile = NoHtml

NextAgg ==
    \/ GroupBySize
    \/ ConvertSizes
    \/ SaveGroupedData

SpecAgg == InitAgg /\ [][NextAgg]_vars

\* The tree pipeline on its own: generate_html_from_json entered with the
\* saved listing any list of TreePool or of RenderPool
InitTree ==
    /\ pc = "saved"
    /\ args = [generate_tree |-> TRUE, depth |-> 1, unit |-> Str_bytes]
    /\ rclone = [calls |-> 1, returncode |-> 0]
    /\ files \in ListsOver(TreePool) \cup ListsOver(RenderPool)
    /\ grouped = <<>>
    /\ converted = <<>>
    /\ stdout = <<>>
    /\ outputFile = [kind |-> "files", unit |-> args.unit, files |-> files,
                     directories |-> <<>>]
    /\ tree = <<>>
    /\ tree_html = <<>>
    /\ treelistFile = NoHtml

NextTree ==
    \/ BuildTree
    \/ RenderTree
    \/ WriteTreelist

SpecTree == InitTree /\ [][NextTree]_vars

---------------------------------------------------------------------------
(* Vocabulary of the properties *)

\* every reordering of a list
PermsOf(s) ==
    {[i \in DOMAIN s |-> s[f[i]]] : f \in Permutations(DOMAIN s)}

\* a tree as a mapping: its nodes, whatever order they were inserted in
NodeSet(t) == {t[i] : i \in DOMAIN t}

RECURSIVE SumOver(_, _)
SumOver(S, val) ==
    IF S = {} THEN 0
    ELSE LET x == CHOOSE y \in S : TRUE
         IN val[x] + SumOver(S \ {x}, val)

\* the sum of the sizes of the tree's nodes at the indexes I
SumNodeSizes(t, I) == SumOver(I, [i \in DOMAIN t |-> t[i].size])

\* the sum of the Size of the listing's entries at the indexes I
SumEntrySizes(fs, I) == SumOver(I, [i \in DOMAIN fs |-> fs[i].Size])

IsPrefix(p, q) == Len(p) <= Len(q) /\ SubSeq(q, 1, Len(p)) = p
Below(p, q) == IsPrefix(p, q) /\ Len(p) < Len(q)

NonEmpty(s) == s # <<>>

\* the segments an entry's path names, empty ones dropped
Segments(entry) == SelectSeq(Split(entry.Path), NonEmpty)

IsReserved(seg) == seg = Str_size \/ seg = Str_isdir

---------------------------------------------------------------------------
(* C1 *)

\* C1: build_tree_structure returns the same tree, as a mapping from paths
\* to (size, isDirectory), for every permutation of the entry list
C1_OrderInvariance ==
    pc = "built" =>
        \A q \in PermsOf(outputFile.files) :
            NodeSet(build_tree_structure(q)) = NodeSet(tree)

\* a three-entry listing built, one of whose reorderings inserts the nodes
\* in another order
C1_Witness ==
    /\ pc = "built"
    /\ Len(outputFile.files) = 3
    /\ \E q \in PermsOf(outputFile.files) : build_tree_structure(q) # tree

---------------------------------------------------------------------------
(* C2 *)

\* C2: every node whose isDirectory flag is true has a size equal to the sum
\* of the sizes of the file-type nodes (flag false) beneath it
C2_DirSizeIsSumOfFileDescendants ==
    pc = "built" =>
        \A i \in DOMAIN tree :
            tree[i].isdir =>
                tree[i].size =
                    SumNodeSizes(tree, {j \in DOMAIN tree :
                        ~tree[j].isdir /\ Below(tree[i].path, tree[j].path)})

---------------------------------------------------------------------------
(* C3 *)

HasChildIn(t, p) == \E j \in DOMAIN t : IsChild(p, t[j].path)
ChildrenSize(t, p) == SumNodeSizes(t, {j \in DOMAIN t : IsChild(p, t[j].path)})

OwnFileSize(fs, p) ==
    SumEntrySizes(fs, {i \in DOMAIN fs : ~fs[i].IsDir /\ Segments(fs[i]) = p})

\* the sizes of the file entries at or under a child of p that is called
\* _size or _isdir: clean_node overwrites such a child with the attribute
OverwrittenSize(fs, p) ==
    SumEntrySizes(fs, {i \in DOMAIN fs :
        /\ ~fs[i].IsDir
        /\ Below(p, Segments(fs[i]))
        /\ IsReserved(Segments(fs[i])[Len(p) + 1])})

---------------------------------------------------------------------------
(* C6 *)

\* the scenario's tree
ScenarioTree ==
    {[path |-> <<<<"a">>>>, size |-> 150, isdir |-> TRUE],
     [path |-> <<<<"a">>, <<"b">>>>, size |-> 100, isdir |-> TRUE],
     [path |-> <<<<"a">>, <<"c">>>>, size |-> 50, isdir |-> TRUE],
     [path |-> <<<<"a">>, <<"b">>, <<"f", "1", ".", "t", "x", "t">>>>,
      size |-> 100, isdir |-> FALSE],
     [path |-> <<<<"a">>, <<"c">>, <<"f", "2", ".", "t", "x", "t">>>>,
      size |-> 50, isdir |-> FALSE]}

\* C6: a node created for an intermediate segment, with no entry of its
\* own, is a directory node; in the scenario a, b and c are directories
\* of sizes 150, 100 and 50 above the files f1.txt (100) and f2.txt (50)
C6_AutoCreatedIsDirectory ==
    pc = "built" =>
        /\ \A i \in DOMAIN tree :
              (/\ \E e \in DOMAIN outputFile.files :
                     Below(tree[i].path, Segments(outputFile.files[e]))
               /\ \A e \in DOMAIN outputFile.files :
                     Segments(outputFile.files[e]) # tree[i].path)
              => tree[i].isdir
        /\ outputFile.files = <<E_f1, E_b, E_f2>> => NodeSet(tree) = ScenarioTree

---------------------------------------------------------------------------
(* C4 *)

FileIndexes(fs) == {i \in DOMAIN fs : ~fs[i].IsDir}

\* C4: for every depth >= 1 the values of the mapping sum to the sizes of
\* the non-directory entries, each key occurring once
C4_SizeConserved ==
    pc = "grouped" /\ args.depth >= 1 =>
        /\ SumOver(DOMAIN grouped, [i \in DOMAIN grouped |-> grouped[i].val])
              = SumEntrySizes(files, FileIndexes(files))
        /\ \A i, j \in DOMAIN grouped :
              grouped[i].key = grouped[j].key => i = j

\* files sharing a group, next to a directory entry that carries a size
C4_Witness ==
    /\ pc = "grouped"
    /\ args.depth >= 1
    /\ Len(grouped) < Cardinality(FileIndexes(files))
    /\ \E i \in DOMAIN files : files[i].IsDir /\ files[i].Size > 0

---------------------------------------------------------------------------
(* C5 *)

SlashesIn(s) == {i \in DOMAIN s : s[i] = "/"}

\* the path up to, not including, its n-th slash; all of it when it has
\* fewer than n slashes
BeforeNthSlash(s, n) ==
    IF Cardinality(SlashesIn(s)) < n THEN s
    ELSE LET k == CHOOSE k \in SlashesIn(s) :
                      Cardinality({j \in SlashesIn(s) : j <= k}) = n
         IN SubSeq(s, 1, k - 1)

\* the first `depth` segments of the path, or the full path at depth 0
ExpectedKey(file, depth) ==
    IF depth = 0 THEN file.Path ELSE BeforeNthSlash(file.Path, depth)

AsMapping(d) == {<<d[i].key, d[i].val>> : i \in DOMAIN d}

\* C5: each file is keyed by the first `depth` segments of its path (by the
\* full path at depth 0 or when the path is shorter), each key maps to the
\* sum of the sizes of its files; the scenario gives {a: 150} at depth 1
\* and {a/b: 100, a/c: 50} at depth 2
C5_GroupKeysAndSums ==
    pc = "grouped" =>
        /\ {grouped[i].key : i \in DOMAIN grouped}
              = {ExpectedKey(files[i], args.depth) : i \in FileIndexes(files)}
        /\ \A g \in DOMAIN grouped :
              grouped[g].val =
                  SumEntrySizes(files, {i \in FileIndexes(files) :
                      ExpectedKey(files[i], args.depth) = grouped[g].key})
        /\ \A i \in FileIndexes(files) :
              Len(Split(files[i].Path)) < args.depth =>
                  HasKey(grouped, files[i].Path)
        /\ files = <<E_f1, E_b, E_f2>> /\ args.depth = 1 =>
              AsMapping(grouped) = {<<P_a, 150>>}
        /\ files = <<E_f1, E_b, E_f2>> /\ args.depth = 2 =>
              AsMapping(grouped) = {<<P_a_b, 100>>, <<<<"a", "/", "c">>, 50>>}

\* the scenario grouped at depth 2
C5_Witness ==
    /\ pc = "grouped"
    /\ files = <<E_f1, E_b, E_f2>>
    /\ args.depth = 2
    /\ Len(grouped) = 2

---------------------------------------------------------------------------
(* C9 *)

\* the divisor the unit names, whatever its case
ExpectedDivisor(unit) ==
    IF Lower(unit) = <<"k", "b">> THEN 2 ^ 10
    ELSE IF Lower(unit) = <<"m", "b">> THEN 2 ^ 20
    ELSE IF Lower(unit) = <<"g", "b">> THEN 2 ^ 30
    ELSE 1

---------------------------------------------------------------------------
(* C10 *)

AggregationRan ==
    pc \in {"grouped", "converted"} \/ outputFile.kind = "directories"

TreePipelineRan ==
    pc \in {"saved", "built", "rendered"} \/ outputFile.kind = "files"
        \/ treelistFile.written

\* C10: rclone is invoked once and has exited zero before anything is
\* computed or written; a non-zero exit aborts with neither file written;
\* otherwise one pipeline runs, never both
C10_OneFetchThenOnePipeline ==
    /\ rclone.calls <= 1
    /\ pc # "start" => rclone.calls = 1
    /\ (AggregationRan \/ TreePipelineRan \/ pc \in {"fetched", "done"})
          => rclone.calls = 1 /\ rclone.returncode = 0
    /\ rclone.returncode # 0 =>
          /\ pc = "aborted"
          /\ outputFile = NoFile
          /\ treelistFile = NoHtml
          /\ ~AggregationRan /\ ~TreePipelineRan
    /\ ~(AggregationRan /\ TreePipelineRan)
    /\ AggregationRan => ~args.generate_tree
    /\ TreePipelineRan => args.generate_tree
    /\ pc = "done" =>
          \/ outputFile.kind = "directories" /\ ~treelistFile.written
          \/ outputFile.kind = "files" /\ treelistFile.written

\* a run that fetched a listing, saved it and wrote treelist.html
C10_Witness ==
    /\ pc = "done"
    /\ rclone = [calls |-> 1, returncode |-> 0]
    /\ Len(files) = 3
    /\ outputFile.kind = "files"
    /\ treelistFile.written

---------------------------------------------------------------------------
(* C7 *)

CountIn(h, lo, hi, tok) == Cardinality({k \in lo..hi : h[k] = tok})

\* the index of the </li> that closes the <li> at index i
CloseOf(h, i) ==
    CHOOSE j \in (i + 1)..Len(h) :
        /\ h[j] = "</li>"
        /\ CountIn(h, i, j, "<li>") = CountIn(h, i, j, "</li>")
        /\ \A m \in (i + 1)..(j - 1) :
              h[m] = "</li>" =>
                  CountIn(h, i, m, "<li>") # CountIn(h, i, m, "</li>")

\* the list items of the markup h that start at index i or later, not
\* those nested in them: whether a folder, the name, what follows the name
RECURSIVE ItemsFrom(_, _)
ItemsFrom(h, i) ==
    IF i > Len(h) \/ h[i] # "<li>" THEN <<>>
    ELSE LET j == CloseOf(h, i)
             k == CHOOSE k \in (i + 2)..j :
                      h[k] = "</span>" /\ \A m \in (i + 2)..(k - 1) : h[m] # "</span>"
         IN <<[folder |-> h[i + 1] = "<span class=\"folder\">",
               name |-> SubSeq(h, i + 2, k - 1),
               inner |-> SubSeq(h, k + 1, j - 1)]>>
            \o ItemsFrom(h, j + 1)

TopItems(h) == ItemsFrom(h, 2)

\* the value of the leading digits of a name, -1 when it has none
LeadingNumber(name) ==
    LET n == IF \E k \in DOMAIN name : ~IsIn(Digits, name[k])
             THEN (CHOOSE k \in DOMAIN name :
                      /\ ~IsIn(Digits, name[k])
                      /\ \A m \in 1..(k - 1) : IsIn(Digits, name[m])) - 1
             ELSE Len(name)
    IN IF n = 0 THEN -1
       ELSE SumOver(1..n, [m \in 1..n |->
                (IndexIn(Digits, name[m]) - 1) * 10 ^ (n - m)])

\* a numbered name before an unnumbered one, smaller numbers first
NumberedBefore(x, y) ==
    /\ LeadingNumber(x) # -1
    /\ LeadingNumber(y) = -1 \/ LeadingNumber(x) < LeadingNumber(y)

\* where the node of path p was inserted in the tree
InsertedAt(t, p) == CHOOSE i \in DOMAIN t : t[i].path = p

\* the rendering h of the children of the node at path p, at depth d
RECURSIVE RenderedRight(_, _, _, _)
RenderedRight(h, t, p, d) ==
    LET its == TopItems(h)
        kids == {n \in NodeSet(t) : IsChild(p, n.path) /\ ~IsReserved(Name(n))}
    IN /\ Len(h) >= 2 /\ h[1] = "<ul>" /\ h[Len(h)] = "</ul>"
       /\ Len(its) = Cardinality(kids)
       /\ \A n \in kids : \E i \in DOMAIN its :
             its[i].name = Name(n) /\ its[i].folder = n.isdir
       \* all directories before all files
       /\ \A i, j \in DOMAIN its : i < j => its[i].folder \/ ~its[j].folder
       \* files case-insensitively by name
       /\ \A i, j \in DOMAIN its :
             i < j /\ ~its[i].folder /\ ~its[j].folder =>
                 ~StrLess(Lower(its[j].name), Lower(its[i].name))
       \* directories by leading number at depth 1, ties in insertion order
       /\ d = 1 =>
             \A i, j \in DOMAIN its :
                 i < j /\ its[i].folder /\ its[j].folder =>
                     /\ ~NumberedBefore(its[j].name, its[i].name)
                     /\ LeadingNumber(its[i].name) = LeadingNumber(its[j].name)
                           => InsertedAt(t, Append(p, its[i].name))
                                 < InsertedAt(t, Append(p, its[j].name))
       \* directories case-insensitively by name below
       /\ d > 1 =>
             \A i, j \in DOMAIN its :
                 i < j /\ its[i].folder /\ its[j].folder =>
                     ~StrLess(Lower(its[j].name), Lower(its[i].name))
       \* a directory holds the rendering of its children, a file nothing
       /\ \A i \in DOMAIN its :
             IF its[i].folder
             THEN RenderedRight(its[i].inner, t, Append(p, its[i].name), d + 1)
             ELSE its[i].inner = <<>>

Dir_10x == Entry(<<"1", "0", "x">>, TRUE, 0)
Dir_2y == Entry(<<"2", "y">>, TRUE, 0)
Dir_abc == Entry(<<"a", "b", "c">>, TRUE, 0)

\* C7: at every level directories come before files; files are ordered
\* case-insensitively; directories are ordered by leading number at depth 1
\* (unnumbered last, ties in insertion order) and case-insensitively below;
\* a directory item holds the rendering of its children and a file item
\* nothing; top-level 10x, 2y, abc come out as 2y, 10x, abc
C7_RenderOrder ==
    pc = "rendered" =>
        /\ RenderedRight(tree_html, tree, <<>>, 1)
        /\ outputFile.files \in PermsOf(<<Dir_10x, Dir_2y, Dir_abc>>) =>
              [i \in 1..3 |-> TopItems(tree_html)[i].name]
                  = <<Dir_2y.Path, Dir_10x.Path, Dir_abc.Path>>

\* the scenario rendered
C7_Witness ==
    /\ pc = "rendered"
    /\ outputFile.files = <<Dir_10x, Dir_2y, Dir_abc>>
    /\ Len(TopItems(tree_html)) = 3

---------------------------------------------------------------------------
(* C8 *)

\* C8 as stated: trees that are identical as mappings, such as the trees
\* built from two permutations of a listing, render to identical markup
C8_Original ==
    pc = "rendered" =>
        \A q \in PermsOf(outputFile.files) :
            generate_tree_html(build_tree_structure(q), <<>>, 1) = tree_html

\* two rendered siblings of the same kind whose sort keys are equal
Tied(t, x, y) ==
    /\ x # y
    /\ Len(x.path) = Len(y.path)
    /\ IsChild(SubSeq(x.path, 1, Len(x.path) - 1), y.path)
    /\ ~IsReserved(Name(x)) /\ ~IsReserved(Name(y))
    /\ x.isdir = y.isdir
    /\ IF x.isdir /\ Len(x.path) = 1
       THEN LeadingNumber(Name(x)) = LeadingNumber(Name(y))
       ELSE Lower(Name(x)) = Lower(Name(y))

NoTies(t) == \A x, y \in NodeSet(t) : ~Tied(t, x, y)

\* C8 amended: trees that are identical as mappings render to identical
\* markup when no two sibling directories have equal sort keys (the leading
\* number at the top level, the lower-cased name below) and no two sibling
\* files have names equal ignoring case
C8_SameMarkupWithoutTies ==
    pc = "rendered" /\ NoTies(tree) =>
        \A q \in PermsOf(outputFile.files) :
            generate_tree_html(build_tree_structure(q), <<>>, 1) = tree_html

\* a tree without ties rendered, one of whose reorderings inserts the
\* nodes in another order
C8_Witness ==
    /\ pc = "rendered"
    /\ NoTies(tree)
    /\ Len(tree) = 3
    /\ \E q \in PermsOf(outputFile.files) : build_tree_structure(q) # tree

=============================================================================
